---- MODULE Spec2Model ----
(***************************************************************************)
(* Solitude: the alarm-clock daemon of infrastructure/solitude.py.         *)
(*                                                                         *)
(* The model covers the schedule calculator (Config.get_night_hours,       *)
(* Config.get_minute_pattern), the two scheduled handlers                  *)
(* (Solitude.heartbeat, Solitude.last_breath) with the session state they  *)
(* share, the per-night output log, and the two jobs Solitude.run          *)
(* registers with the scheduler.  The scheduler runs each job in a worker  *)
(* thread; max_instances=1 limits the instances of one job, so a handler   *)
(* is modelled as a thread with a program counter, preemptible between     *)
(* its accesses to the shared session state.                               *)
(*                                                                         *)
(* Time is counted in minutes since 00:00 of day 0; a date is a day        *)
(* number.  A session identity is a positive integer, uuid4 never          *)
(* returning the same value twice.                                         *)
(***************************************************************************)
EXTENDS Integers, Sequences, FiniteSets, TLC

VARIABLES
    config,         \* Config: night_start, night_end, interval_minutes
    hours,          \* the hour list of the heartbeat CronTrigger (run)
    minutes,        \* the minute list of the heartbeat CronTrigger (run)
    running,        \* scheduler.start() has been reached
    now,            \* datetime.now(), in minutes
    session_id,     \* Solitude.session_id
    tonight_date,   \* Solitude.tonight_date
    uuid_count,     \* number of uuid4() calls made so far
    hb,             \* the heartbeat job's running instance
    lb,             \* the last_breath job's running instance
    fired,          \* jobs whose trigger has been served at this instant
    output_log,     \* the files of output_dir, by name (a date or None)
    hist            \* history of the run, read by the properties only

vars == <<config, hours, minutes, running, now, session_id, tonight_date,
          uuid_count, hb, lb, fired, output_log, hist>>

----------------------------------------------------------------------------
(* Bounds of the model *)

\* Last day on which the clock may stand.
MaxDay == 2

\* Most transcript blocks written to the output files in one run.
MaxBlocks == 2

----------------------------------------------------------------------------
(* Constants of the program *)

\* subprocess.run(..., timeout=900): 15 minutes.
TimeoutMinutes == 15

\* Python's None, for session_id and tonight_date.
None == 0 - 1

MinutesPerDay == 24 * 60

----------------------------------------------------------------------------
(* datetime *)

Day(t) == t \div MinutesPerDay
Hour(t) == (t % MinutesPerDay) \div 60
Minute(t) == t % 60

\* range(a, b) as a list
Range(a, b) == [i \in 1..(IF b > a THEN b - a ELSE 0) |-> a + i - 1]

\* range(0, b, step) as a list
RangeStep(b, step) == [i \in 1..((b + step - 1) \div step) |-> (i - 1) * step]

Elems(s) == {s[i] : i \in 1..Len(s)}

----------------------------------------------------------------------------
(* Config *)

\* get_night_hours with night_end taken as the last hour of the heartbeats
\* (end_hour = night_end).
get_night_hours_inclusive(c) ==
    LET end_hour == c.night_end
    IN  IF c.night_start > end_hour
        THEN Range(c.night_start, 24) \o Range(0, end_hour + 1)
        ELSE Range(c.night_start, end_hour + 1)

\* get_night_hours without the branch that wraps around midnight.
get_night_hours_no_wrap(c) ==
    LET end_hour == IF c.night_end > 0 THEN c.night_end - 1 ELSE 23
    IN  Range(c.night_start, end_hour + 1)

\* get_minute_pattern with minute 60 inside the range.
get_minute_pattern_inclusive(c) == RangeStep(61, c.interval_minutes)

\* Config.get_night_hours: the hour list, before it is joined with commas.
get_night_hours(c) ==
    LET end_hour == IF c.night_end > 0 THEN c.night_end - 1 ELSE 23
    IN  IF c.night_start > end_hour
        THEN Range(c.night_start, 24) \o Range(0, end_hour + 1)
        ELSE Range(c.night_start, end_hour + 1)

\* Config.get_minute_pattern: the minute list, before it is joined.
get_minute_pattern(c) == RangeStep(60, c.interval_minutes)

\* Every configuration the schedule calculator accepts.
AllConfigs ==
    [night_start : 0..23, night_end : 0..23, interval_minutes : 1..60]

Cfg(s, e, i) == [night_start |-> s, night_end |-> e, interval_minutes |-> i]

\* The configurations the daemon is run under: the default of from_toml
\* (lines 51-53), a night inside one calendar day with
\* heartbeats ten minutes apart, a night ending at midnight, and
\* night_start = night_end.
DaemonConfigs ==
    { Cfg(22, 5, 20), Cfg(0, 1, 10), Cfg(22, 0, 30), Cfg(23, 23, 60) }

----------------------------------------------------------------------------
(* Solitude: session state *)

\* _get_tonight_date with the hour night_end still counted as last night.
_get_tonight_date_le ==
    IF Hour(now) <= config.night_end THEN Day(now) - 1 ELSE Day(now)

\* Solitude._get_tonight_date
_get_tonight_date ==
    IF Hour(now) < config.night_end THEN Day(now) - 1 ELSE Day(now)

\* _is_first_breath comparing tonight_date with the calendar date of the
\* clock instead of the logical night date.
_is_first_breath_calendar ==
    IF session_id = None THEN TRUE
    ELSE IF tonight_date # Day(now) THEN TRUE
    ELSE FALSE

\* _is_first_breath without the comparison of dates.
_is_first_breath_no_date == session_id = None

\* Solitude._is_first_breath
_is_first_breath ==
    LET current_date == _get_tonight_date
    IN  IF session_id = None THEN TRUE
        ELSE IF tonight_date # current_date THEN TRUE
        ELSE FALSE

\* build_prompt that does not look at is_last.
build_prompt_no_last(is_first, is_last) ==
    IF is_first THEN "night_begins" ELSE "time_alone"

\* Solitude.build_prompt: which of the three prompts is built (the text of
\* each starts with the time and, for the first two, goes on with the file
\* or with the fallback sentence).
build_prompt(is_first, is_last) ==
    IF is_last THEN "night_ends"
    ELSE IF is_first THEN "night_begins"
    ELSE "time_alone"

\* The heartbeat's cmd with --resume in both branches.
heartbeat_cmd_resume(is_first) == "resume"

\* The flag of the heartbeat's cmd (lines 244-255): --session-id starts a
\* new session, --resume continues one.
heartbeat_cmd(is_first) == IF is_first THEN "new" ELSE "resume"

\* The flag of the last breath's cmd (lines 299-303).
last_breath_cmd == "resume"

\* str(uuid.uuid4()): a value no earlier call returned.
uuid4 == uuid_count + 1

\* A job with no running instance.  Beside the handler's locals (is_first,
\* the cmd's mode and session) the record keeps what the properties read:
\* the session the handler minted, the clock-derived night date at the fire,
\* the stored state when the invocation started, and the history seen at
\* the fire.
Idle == [pc |-> "idle", is_first |-> FALSE, minted |-> None, mode |-> "none",
         prompt |-> "none",
         sid |-> None, start |-> 0, fire_date |-> None, stored_date |-> None,
         sid0 |-> None, after_lb |-> None,
         prev_first |-> FALSE, prev_failed |-> FALSE, prev_sid |-> None,
         prev_date |-> None]

Dates == 0..MaxDay
FileNames == Dates \cup {None}

Header(d, s) == [kind |-> "header", date |-> d, sid |-> s]
Block(s) == [kind |-> "block", date |-> None, sid |-> s]

\* log_output opening the file with "w".
log_output_overwrite(is_first, who) ==
    LET log_path == tonight_date
        written == IF is_first
                   THEN <<Header(tonight_date, session_id), Block(who)>>
                   ELSE <<Block(who)>>
    IN  [output_log EXCEPT ![log_path] = written]

\* Solitude.log_output: the header when is_first, then the block, appended
\* to the file get_output_log_path names.  who is the session the agent was
\* invoked with (the block's text does not hold it).
log_output(is_first, who) ==
    LET log_path == tonight_date
        written == IF is_first
                   THEN <<Header(tonight_date, session_id), Block(who)>>
                   ELSE <<Block(who)>>
    IN  [output_log EXCEPT ![log_path] = @ \o written]

Outcomes == {"output", "empty", "nonzero", "timeout", "error"}
Failures == {"nonzero", "timeout", "error"}

\* The handler that returned at this instant, if one did: its job, the
\* outcome of its invocation, its classification, its prompt and the
\* session it minted, the stored state when its invocation started and
\* when it returned, the number of blocks in the files when the invocation
\* ended and when the handler returned, and the files as they were when
\* the invocation ended.
NoReturn ==
    [job |-> "none", outcome |-> "none", is_first |-> FALSE, minted |-> None,
     prompt |-> "none",
     fire_date |-> None, sid0 |-> None, date0 |-> None, blocks0 |-> 0,
     sid |-> None, date |-> None, blocks |-> 0,
     log0 |-> [f \in FileNames |-> <<>>]]

\* A count, kept up to 2.
Cap2(n) == IF n >= 2 THEN 2 ELSE n + 1

\* The history starts empty.  The clock never goes back, so the night dates
\* of the fires never decrease and the history keeps the sessions and the
\* classifications of the latest night only (with the sessions of the night
\* before it, which a last breath may still close).
InitHist ==
    [night |-> None, sids |-> {}, prev_sids |-> {},
     count_date |-> None, hb_count |-> 0, first_count |-> 0,
     after_lb |-> None,
     last_first |-> FALSE, last_failed |-> FALSE, last_sid |-> None,
     last_date |-> None,
     blocks |-> 0,
     ret |-> NoReturn]

\* The history after the agent was invoked with session s for night d.
Invoked(h, d, s) ==
    IF d = h.night THEN [h EXCEPT !.sids = @ \cup {s}]
    ELSE IF d = h.night - 1 THEN [h EXCEPT !.prev_sids = @ \cup {s}]
    ELSE [h EXCEPT !.night = d, !.sids = {s},
                   !.prev_sids = IF d = h.night + 1 THEN h.sids ELSE {}]

\* The history after a heartbeat of night d was classified.
Classified(h, d, is_first) ==
    LET n == IF d = h.count_date THEN h.hb_count ELSE 0
        f == IF d = h.count_date THEN h.first_count ELSE 0
    IN  [h EXCEPT !.count_date = d,
                  !.hb_count = Cap2(n),
                  !.first_count = IF is_first THEN Cap2(f) ELSE f]

----------------------------------------------------------------------------
(* Solitude.__init__ and Solitude.run *)

StartInstant == MinutesPerDay

InitWith(configs) ==
    /\ config \in configs
    /\ hours = <<>>
    /\ minutes = <<>>
    /\ running = FALSE
    /\ now = StartInstant
    /\ session_id = None
    /\ tonight_date = None
    /\ uuid_count = 0
    /\ hb = Idle
    /\ lb = Idle
    /\ fired = {}
    /\ output_log = [f \in FileNames |-> <<>>]
    /\ hist = InitHist

Init == InitWith(DaemonConfigs)

\* run: the two triggers are computed and the jobs added; scheduler.start().
Run ==
    /\ ~running
    /\ hours' = get_night_hours(config)
    /\ minutes' = get_minute_pattern(config)
    /\ running' = TRUE
    /\ UNCHANGED <<config, now, session_id, tonight_date, uuid_count, hb, lb,
                   fired, output_log, hist>>

\* CronTrigger(hour=hours, minute=minutes) fires at instant t.
HeartbeatDue(t) == Hour(t) \in Elems(hours) /\ Minute(t) \in Elems(minutes)

\* CronTrigger(hour=night_end, minute=0) fires at instant t.
LastBreathDue(t) == Hour(t) = config.night_end /\ Minute(t) = 0

\* max_instances=1: a job with a running instance is not started again.
\* Each job has its own count.
MayStart(job) ==
    IF job = "heartbeat" THEN hb.pc = "idle" ELSE lb.pc = "idle"

----------------------------------------------------------------------------
(* Solitude.heartbeat *)

\* The heartbeat trigger fires and the job starts: is_first is computed
\* (line 233).
HeartbeatFire ==
    /\ running
    /\ HeartbeatDue(now)
    /\ "heartbeat" \notin fired
    /\ MayStart("heartbeat")
    /\ LET is_first == _is_first_breath
           d == _get_tonight_date
       IN  /\ hb' = [Idle EXCEPT
                       !.pc = IF is_first THEN "mint_id" ELSE "cmd",
                       !.is_first = is_first,
                       !.fire_date = d,
                       !.after_lb = hist.after_lb,
                       !.prev_first = hist.last_first,
                       !.prev_failed = hist.last_failed,
                       !.prev_sid = hist.last_sid,
                       !.prev_date = hist.last_date]
           /\ hist' = [Classified(hist, d, is_first) EXCEPT
                         !.after_lb = None]
    /\ fired' = fired \cup {"heartbeat"}
    /\ UNCHANGED <<config, hours, minutes, running, now, session_id,
                   tonight_date, uuid_count, lb, output_log>>

\* self.session_id = str(uuid.uuid4())  (line 236)
HeartbeatMintId ==
    /\ hb.pc = "mint_id"
    /\ session_id' = uuid4
    /\ uuid_count' = uuid_count + 1
    /\ hb' = [hb EXCEPT !.pc = "mint_date", !.minted = uuid4]
    /\ UNCHANGED <<config, hours, minutes, running, now, tonight_date, lb,
                   fired, output_log, hist>>

\* self.tonight_date = self._get_tonight_date()  (line 237)
HeartbeatMintDate ==
    /\ hb.pc = "mint_date"
    /\ tonight_date' = _get_tonight_date
    /\ hb' = [hb EXCEPT !.pc = "cmd"]
    /\ UNCHANGED <<config, hours, minutes, running, now, session_id,
                   uuid_count, lb, fired, output_log, hist>>

\* cmd is built from self.session_id and subprocess.run starts
\* (lines 242-264).
HeartbeatInvoke ==
    /\ hb.pc = "cmd"
    /\ hb' = [hb EXCEPT
                !.pc = "wait",
                !.prompt = build_prompt(hb.is_first, FALSE),
                !.mode = heartbeat_cmd(hb.is_first),
                !.sid = session_id,
                !.start = now,
                !.stored_date = tonight_date,
                !.sid0 = session_id]
    /\ hist' = Invoked(hist, hb.fire_date, session_id)
    /\ UNCHANGED <<config, hours, minutes, running, now, session_id,
                   tonight_date, uuid_count, lb, fired, output_log>>

\* The instant at which subprocess.run raises TimeoutExpired.
Deadline(job) == job.start + TimeoutMinutes

\* The outcome may end an invocation now: TimeoutExpired at the deadline,
\* any other outcome before it.
MayEnd(job, outcome) ==
    IF outcome = "timeout" THEN now = Deadline(job) ELSE now < Deadline(job)

\* What a handler leaves of the history when it returns.
Returned(name, job, outcome) ==
    LET blocks == IF outcome = "output" THEN hist.blocks + 1 ELSE hist.blocks
    IN  [hist EXCEPT
           !.blocks = blocks,
           !.ret = [job |-> name, outcome |-> outcome,
                    is_first |-> job.is_first, minted |-> job.minted,
                    prompt |-> job.prompt,
                    fire_date |-> job.fire_date, sid0 |-> job.sid0,
                    date0 |-> job.stored_date, blocks0 |-> hist.blocks,
                    sid |-> session_id, date |-> tonight_date,
                    blocks |-> blocks, log0 |-> output_log]]

\* subprocess.run returns or raises; the result is handled (lines 266-280).
HeartbeatReturn(outcome) ==
    /\ hb.pc = "wait"
    /\ MayEnd(hb, outcome)
    /\ outcome = "output" => hist.blocks < MaxBlocks
    /\ output_log' = IF outcome = "output"
                     THEN log_output(hb.is_first, hb.sid)
                     ELSE output_log
    /\ hb' = Idle
    /\ hist' = [Returned("heartbeat", hb, outcome) EXCEPT
                  !.last_first = hb.is_first,
                  !.last_failed = outcome \in Failures,
                  !.last_sid = IF hb.is_first THEN hb.minted ELSE hb.sid,
                  !.last_date = hb.fire_date]
    /\ UNCHANGED <<config, hours, minutes, running, now, session_id,
                   tonight_date, uuid_count, lb, fired>>

----------------------------------------------------------------------------
(* Solitude.last_breath *)

\* The last_breath trigger fires and the job starts: self.session_id is
\* compared with None (line 292).
LastBreathFire ==
    /\ running
    /\ LastBreathDue(now)
    /\ "last_breath" \notin fired
    /\ MayStart("last_breath")
    /\ lb' = [Idle EXCEPT
                !.pc = IF session_id = None THEN "mint_id" ELSE "cmd",
                !.fire_date = _get_tonight_date]
    /\ fired' = fired \cup {"last_breath"}
    /\ UNCHANGED <<config, hours, minutes, running, now, session_id,
                   tonight_date, uuid_count, hb, output_log, hist>>

\* self.session_id = str(uuid.uuid4())  (line 293)
LastBreathMintId ==
    /\ lb.pc = "mint_id"
    /\ session_id' = uuid4
    /\ uuid_count' = uuid_count + 1
    /\ lb' = [lb EXCEPT !.pc = "mint_date", !.minted = uuid4]
    /\ UNCHANGED <<config, hours, minutes, running, now, tonight_date, hb,
                   fired, output_log, hist>>

\* self.tonight_date = self._get_tonight_date()  (line 294)
LastBreathMintDate ==
    /\ lb.pc = "mint_date"
    /\ tonight_date' = _get_tonight_date
    /\ lb' = [lb EXCEPT !.pc = "cmd"]
    /\ UNCHANGED <<config, hours, minutes, running, now, session_id,
                   uuid_count, hb, fired, output_log, hist>>

\* The night a last breath at night_end:00 closes: the one before the night
\* that _get_tonight_date names from night_end:00 on.
ClosedNight(d) == d - 1

\* cmd is built from self.session_id, always with --resume, and
\* subprocess.run starts (lines 297-312).
LastBreathInvoke ==
    /\ lb.pc = "cmd"
    /\ lb' = [lb EXCEPT
                !.pc = "wait",
                !.prompt = build_prompt(FALSE, TRUE),
                !.mode = last_breath_cmd,
                !.sid = session_id,
                !.start = now,
                !.stored_date = tonight_date,
                !.sid0 = session_id]
    /\ hist' = Invoked(hist, ClosedNight(lb.fire_date), session_id)
    /\ UNCHANGED <<config, hours, minutes, running, now, session_id,
                   tonight_date, uuid_count, hb, fired, output_log>>

\* last_breath forgetting the session when the night is closed.
LastBreathReturn_clears(outcome) ==
    /\ lb.pc = "wait"
    /\ MayEnd(lb, outcome)
    /\ outcome = "output" => hist.blocks < MaxBlocks
    /\ output_log' = IF outcome = "output"
                     THEN log_output(FALSE, lb.sid)
                     ELSE output_log
    /\ lb' = Idle
    /\ session_id' = None
    /\ tonight_date' = None
    /\ hist' = [Returned("last_breath", lb, outcome) EXCEPT
                  !.after_lb = lb.sid]
    /\ UNCHANGED <<config, hours, minutes, running, now, uuid_count, hb,
                   fired>>

\* subprocess.run returns or raises; the result is handled (lines 314-327).
LastBreathReturn(outcome) ==
    /\ lb.pc = "wait"
    /\ MayEnd(lb, outcome)
    /\ outcome = "output" => hist.blocks < MaxBlocks
    /\ output_log' = IF outcome = "output"
                     THEN log_output(FALSE, lb.sid)
                     ELSE output_log
    /\ lb' = Idle
    /\ hist' = [Returned("last_breath", lb, outcome) EXCEPT
                  !.after_lb = lb.sid]
    /\ UNCHANGED <<config, hours, minutes, running, now, session_id,
                   tonight_date, uuid_count, hb, fired>>

----------------------------------------------------------------------------
(* The clock *)

Min(S) == CHOOSE x \in S : \A y \in S : x <= y

LastInstant == MaxDay * MinutesPerDay + MinutesPerDay - 1

\* The instants of the day that starts at midnight m at which a trigger
\* fires.
FiresOfDay(m) ==
    {m + 60 * h + mi : h \in Elems(hours), mi \in Elems(minutes)}
        \cup {m + 60 * config.night_end}

\* The first instant after t at which a trigger fires.
NextFire(t) ==
    LET m == Day(t) * MinutesPerDay
    IN  Min({u \in FiresOfDay(m) \cup FiresOfDay(m + MinutesPerDay) : u > t})

\* The deadlines of the invocations in flight.
Deadlines ==
    {Deadline(j) : j \in {j \in {hb, lb} : j.pc = "wait"}}

\* Time passes, to the next instant at which a trigger fires or an
\* invocation in flight times out.  A handler takes no time outside the
\* invocation; an invocation is over by its deadline.  A trigger whose job
\* did not start at its instant is not served later (a run missed by more
\* than the grace time is dropped).
Tick ==
    /\ running
    /\ hb.pc \in {"idle", "wait"}
    /\ lb.pc \in {"idle", "wait"}
    /\ \A d \in Deadlines : now < d
    /\ now' = Min({NextFire(now)} \cup Deadlines)
    /\ now' <= LastInstant
    /\ fired' = {}
    /\ hist' = [hist EXCEPT !.ret = NoReturn]
    /\ UNCHANGED <<config, hours, minutes, running, session_id, tonight_date,
                   uuid_count, hb, lb, output_log>>

Next ==
    \/ Run
    \/ Tick
    \/ HeartbeatFire
    \/ HeartbeatMintId
    \/ HeartbeatMintDate
    \/ HeartbeatInvoke
    \/ \E outcome \in Outcomes : HeartbeatReturn(outcome)
    \/ LastBreathFire
    \/ LastBreathMintId
    \/ LastBreathMintDate
    \/ LastBreathInvoke
    \/ \E outcome \in Outcomes : LastBreathReturn(outcome)

Spec == Init /\ [][Next]_vars

\* The schedule calculator alone, over every configuration: run computes
\* the two triggers.
SchedInit == InitWith(AllConfigs)

SchedSpec == SchedInit /\ [][Run]_vars

\* The daemon with serialized fires: a handler starts only when the other
\* one is not running.
Serialized == ~(hb.pc # "idle" /\ lb.pc # "idle")

SerialNext == Next /\ Serialized'

SerialSpec == Init /\ [][SerialNext]_vars

\* _get_tonight_date alone: the clock reads any hour of any day, night_end
\* is any hour, and the object holds no session or a session of any night.
ClockTimes ==
    {d * MinutesPerDay + 60 * h + m : d \in 1..MaxDay, h \in 0..23,
                                      m \in {0, 59}}

DateInit ==
    /\ config \in {Cfg(22, e, 20) : e \in 0..23}
    /\ hours = <<>> /\ minutes = <<>> /\ running = FALSE
    /\ now \in ClockTimes
    /\ \/ session_id = None /\ tonight_date = None /\ uuid_count = 0
       \/ session_id = 1 /\ tonight_date \in Dates /\ uuid_count = 1
    /\ hb = Idle /\ lb = Idle
    /\ fired = {}
    /\ output_log = [f \in FileNames |-> <<>>]
    /\ hist = InitHist

\* A call of _get_tonight_date; the caller keeps the result.
GetTonightDateCall ==
    /\ hb.pc = "idle"
    /\ hb' = [hb EXCEPT !.pc = "date", !.fire_date = _get_tonight_date]
    /\ UNCHANGED <<config, hours, minutes, running, now, session_id,
                   tonight_date, uuid_count, lb, fired, output_log, hist>>

DateSpec == DateInit /\ [][GetTonightDateCall]_vars

----------------------------------------------------------------------------
(* Properties *)

InFlight(job) == job.pc = "wait"

NormalConfig == config.night_start # config.night_end

\* The agent was invoked with one session at most for the latest night and
\* for the night before it, heartbeats and closing last breath together.
OneSessionPerNight ==
    /\ Cardinality(hist.sids) <= 1
    /\ Cardinality(hist.prev_sids) <= 1

\* C1, as stated: the heartbeats of one logical night and the last breath
\* that closes that night invoke the agent with one and the same session,
\* under every configuration.
C1_OneSessionPerNight_AnyConfig == OneSessionPerNight

\* C1, amended: when night_start differs from night_end, the heartbeats of
\* one logical night and the last breath that closes that night invoke the
\* agent with one and the same session, whatever the outcomes.
C1_OneSessionPerNight == NormalConfig => OneSessionPerNight

\* C1 witness: two heartbeats or more of one night and the last breath that
\* closes it have invoked the agent, one of them having failed before.
C1_Witness ==
    /\ NormalConfig
    /\ InFlight(lb)
    /\ ClosedNight(lb.fire_date) = hist.night
    /\ hist.count_date = hist.night
    /\ hist.hb_count = 2
    /\ hist.last_failed
    /\ hist.sids = {lb.sid}

\* C2, on the configurations with night_start # night_end: of the
\* heartbeats fired for one logical night, exactly one is classified first
\* (the first one, every later one being middle).
C2_FirstExactlyOncePerNight ==
    (NormalConfig /\ hist.hb_count >= 1) => hist.first_count = 1

\* C3, on the configurations with night_start # night_end: the first
\* heartbeat after a last breath has run is classified first, and invokes
\* the agent in new-session mode with a session other than the one the last
\* breath used.
C3_FreshAfterLastBreath ==
    (NormalConfig /\ InFlight(hb) /\ hb.after_lb # None) =>
        /\ hb.is_first
        /\ hb.mode = "new"
        /\ hb.sid # hb.after_lb

\* An invocation in resume mode by job resumes a session whose stored
\* night_date is the clock-derived night date of the fire.
ResumesTonight(job) ==
    (InFlight(job) /\ job.mode = "resume") => job.stored_date = job.fire_date

\* C4, as stated, on the configurations with night_start # night_end:
\* every invocation in resume mode, by heartbeat or by last_breath, resumes
\* a session whose stored night_date is the night date _get_tonight_date
\* yields at that time.
C4_NoResumeAcrossNights_BothHandlers ==
    NormalConfig => (ResumesTonight(hb) /\ ResumesTonight(lb))

\* C4, amended: every invocation in resume mode by heartbeat resumes a
\* session whose stored night_date is the night date _get_tonight_date
\* yields at that time; last_breath resumes the stored session without
\* comparing dates, and its stored night_date is never later than that date.
C4_NoResumeAcrossNights ==
    /\ ResumesTonight(hb)
    /\ InFlight(lb) => lb.stored_date <= lb.fire_date

\* C4 witness: a heartbeat has resumed tonight's session and a last breath
\* has resumed the session of the night it closes.
C4_Witness ==
    /\ InFlight(hb) /\ hb.mode = "resume" /\ hb.stored_date = hb.fire_date
    /\ InFlight(lb) /\ lb.stored_date = lb.fire_date - 1 /\ lb.minted = None

\* C5, on the configurations with night_start # night_end: no handler
\* runs while a run of either handler is still in flight.
C5_HandlersSerialized ==
    NormalConfig => ~(hb.pc # "idle" /\ lb.pc # "idle")

NoDuplicates(s) ==
    \A i, j \in 1..Len(s) : i # j => s[i] # s[j]

\* The wrap case of the hour range, as C6 words it.
WrapCase == config.night_start > config.night_end - 1

\* The heartbeat's hours are distinct and night_end is none of them, so the
\* heartbeat trigger does not fire at night_end:00, the instant of the last
\* breath.
NightEndExcluded ==
    /\ NoDuplicates(hours)
    /\ config.night_end \notin Elems(hours)
    /\ \A day \in 0..MaxDay :
           LET t == day * MinutesPerDay + 60 * config.night_end
           IN  LastBreathDue(t) /\ ~HeartbeatDue(t)

\* C6, as stated: for every night_start, night_end in 0..23 with
\* night_start > night_end - 1, the heartbeat's hours have no duplicates and
\* exclude night_end, and the two triggers never fire at the same instant.
C6_NightEndExcluded_Wrap == (running /\ WrapCase) => NightEndExcluded

\* C6, amended: the same for every night_start, night_end in 0..23 with
\* night_start > night_end - 1 and night_start # night_end.
C6_NightEndExcluded ==
    (running /\ WrapCase /\ NormalConfig) => NightEndExcluded

\* C6 witness: the triggers computed for night_start=22, night_end=5.
C6_Witness ==
    /\ running
    /\ WrapCase
    /\ config = Cfg(22, 5, 20)
    /\ hours = <<22, 23, 0, 1, 2, 3, 4>>
    /\ minutes = <<0, 20, 40>>

\* The first entry of every file that holds a block is the night header.
\* (A header is written with a block only, so a file that is not empty
\* holds a block.)
HeaderFirst(f) == output_log[f] # <<>> => output_log[f][1].kind = "header"

\* C7, on the configurations with night_start # night_end: in every
\* per-night file the first block is preceded by the night header and the
\* session line.
C7_FirstBlockHasHeader ==
    NormalConfig => \A f \in FileNames : HeaderFirst(f)

FailedFirst(r) ==
    r.job = "heartbeat" /\ r.is_first /\ r.outcome \in Failures

\* C8: when a heartbeat classified first has minted a session and its
\* invocation failed, session_id and tonight_date hold what it minted when
\* it returns, and the next heartbeat of the same night is classified
\* middle and resumes that session.
C8_FailedFirstClaimsNight ==
    /\ FailedFirst(hist.ret) =>
            /\ hist.ret.sid = hist.ret.minted
            /\ hist.ret.date = hist.ret.fire_date
    /\ (InFlight(hb) /\ hb.prev_first /\ hb.prev_failed
            /\ hb.fire_date = hb.prev_date) =>
            /\ ~hb.is_first
            /\ hb.mode = "resume"
            /\ hb.sid = hb.prev_sid

\* C9: when the invocation of either handler has failed, the handler
\* returns having written nothing to the output log, with session_id and
\* tonight_date as they were when the invocation started; and the heartbeat
\* after a failed middle heartbeat of the same night is middle again, with
\* the same session.
C9_FailureLeavesState ==
    /\ hist.ret.outcome \in Failures =>
            /\ hist.ret.blocks = hist.ret.blocks0
            /\ hist.ret.sid = hist.ret.sid0
            /\ hist.ret.date = hist.ret.date0
    /\ (InFlight(hb) /\ ~hb.prev_first /\ hb.prev_failed
            /\ hb.fire_date = hb.prev_date) =>
            /\ ~hb.is_first
            /\ hb.sid = hb.prev_sid

\* C10: a last breath that found no session invokes the agent with the
\* session it minted, tonight_date being the clock-derived night date.
C10_LastBreathUsesMinted ==
    (InFlight(lb) /\ lb.minted # None) =>
        /\ lb.sid = lb.minted
        /\ lb.stored_date = lb.fire_date

----------------------------------------------------------------------------
\* C11: for night_end in 1..23 and every clock time, _get_tonight_date
\* returns yesterday's date when the hour is before night_end and today's
\* date otherwise, whatever night date the object has stored.
C11_TonightDateFromClock ==
    (hb.pc = "date" /\ config.night_end \in 1..23) =>
        LET today == Day(now)
            yesterday == today - 1
        IN  /\ Hour(now) < config.night_end => hb.fire_date = yesterday
            /\ Hour(now) >= config.night_end => hb.fire_date = today

\* C11 witness: the call at the hour night_end itself, with a session of
\* another night stored, returned today.
C11_Witness ==
    /\ hb.pc = "date"
    /\ config.night_end \in 1..23
    /\ Hour(now) = config.night_end
    /\ tonight_date # None
    /\ tonight_date # Day(now)
    /\ hb.fire_date = Day(now)
\* The hours a, a+1, ..., b stand in s from position p on.
RunsFrom(s, p, a, b) ==
    /\ Len(s) >= p + (b - a)
    /\ \A h \in a..b : s[p + (h - a)] = h

\* C12: with end_hour = night_end - 1 (23 when night_end = 0), the hour
\* list is night_start..23 followed by 0..end_hour when night_start is
\* greater than end_hour, and night_start..end_hour otherwise; 22 and 5
\* give 22,23,0,1,2,3,4.
C12_NightHours ==
    running =>
        LET s == config.night_start
            end_hour == (config.night_end + 23) % 24
        IN  /\ s > end_hour =>
                  /\ Len(hours) = (24 - s) + (end_hour + 1)
                  /\ RunsFrom(hours, 1, s, 23)
                  /\ RunsFrom(hours, 24 - s + 1, 0, end_hour)
            /\ s <= end_hour =>
                  /\ Len(hours) = end_hour - s + 1
                  /\ RunsFrom(hours, 1, s, end_hour)
            /\ (s = 22 /\ config.night_end = 5) =>
                  hours = <<22, 23, 0, 1, 2, 3, 4>>

\* C12 witness: a night that ends at midnight has the hours up to 23, and
\* no hour after midnight.
C12_Witness ==
    /\ running
    /\ config.night_start = 20
    /\ config.night_end = 0
    /\ hours = <<20, 21, 22, 23>>
----------------------------------------------------------------------------
\* C13: for an interval_minutes in 1..60 that divides 60, the minute list
\* has exactly 60 / interval_minutes different minutes, starts at 0, and
\* each minute is a multiple of interval_minutes below 60.
C13_MinutePattern ==
    (running /\ 60 % config.interval_minutes = 0) =>
        /\ Len(minutes) = 60 \div config.interval_minutes
        /\ NoDuplicates(minutes)
        /\ minutes[1] = 0
        /\ \A i \in 1..Len(minutes) :
              /\ minutes[i] % config.interval_minutes = 0
              /\ minutes[i] >= 0
              /\ minutes[i] < 60

\* C13 witness: a quarter of an hour gives 0, 15, 30, 45.
C13_Witness ==
    /\ running
    /\ config.interval_minutes = 15
    /\ minutes = <<0, 15, 30, 45>>
----------------------------------------------------------------------------
\* C14: the agent is started with --session-id exactly when the wakeup is
\* a heartbeat classified first; a heartbeat classified middle and every
\* last breath, one that minted its session included, use --resume, and
\* the session they pass is the stored one, never an absent one.
C14_NewSessionIffFirstHeartbeat ==
    /\ InFlight(hb) =>
          /\ hb.mode \in {"new", "resume"}
          /\ hb.mode = "new" <=> hb.is_first
          /\ hb.sid = hb.sid0 /\ hb.sid # None
    /\ InFlight(lb) =>
          /\ lb.mode = "resume"
          /\ lb.sid = lb.sid0 /\ lb.sid # None

\* C14 witness: a first heartbeat runs the agent with --session-id while a
\* last breath that minted its session runs it with --resume.
C14_Witness ==
    /\ InFlight(hb) /\ hb.is_first /\ hb.mode = "new"
    /\ InFlight(lb) /\ lb.minted # None /\ lb.mode = "resume"

\* The entries a file got when the handler returned.
Appended(f) ==
    SubSeq(output_log[f], Len(hist.ret.log0[f]) + 1, Len(output_log[f]))

HasHeader(s) == \E i \in 1..Len(s) : s[i].kind = "header"

\* C15: a wakeup gets exactly one of the three prompts.  A last breath
\* always gets the night-ends prompt and writes no night header, also when
\* it minted its session; a heartbeat gets the night-begins prompt exactly
\* when it is classified first, and the middle prompt otherwise.
C15_OnePromptPerWakeup ==
    /\ InFlight(hb) =>
          hb.prompt = IF hb.is_first THEN "night_begins" ELSE "time_alone"
    /\ InFlight(lb) => lb.prompt = "night_ends"
    /\ hist.ret.job = "last_breath" =>
          /\ hist.ret.prompt = "night_ends"
          /\ \A f \in FileNames : ~HasHeader(Appended(f))
    /\ hist.ret.job = "heartbeat" =>
          /\ hist.ret.prompt # "night_ends"
          /\ hist.ret.prompt = "night_begins" <=> hist.ret.is_first

\* C15 witness: a last breath that minted its session returned with output,
\* and what it wrote is a block without a header.
C15_Witness ==
    /\ hist.ret.job = "last_breath"
    /\ hist.ret.minted # None
    /\ hist.ret.outcome = "output"
    /\ hist.ret.prompt = "night_ends"
    /\ \E f \in FileNames : Appended(f) = <<Block(hist.ret.minted)>>
----------------------------------------------------------------------------
\* C16: a last breath that found a session changes nothing of the session
\* state: when it returns, whatever the outcome, session_id and
\* tonight_date are what they were when it started.
C16_LastBreathLeavesSession ==
    (hist.ret.job = "last_breath" /\ hist.ret.minted = None) =>
        /\ hist.ret.sid = hist.ret.sid0
        /\ hist.ret.date = hist.ret.date0
----------------------------------------------------------------------------
IsPrefix(s, t) == Len(s) <= Len(t) /\ SubSeq(t, 1, Len(s)) = s

BlocksIn(s) == Cardinality({i \in 1..Len(s) : s[i].kind = "block"})

\* C17: the output log only grows, by at most one block for each wakeup.
\* When a handler returns, every file starts with what it held before; one
\* file has got exactly one block when the agent exited with status 0 and
\* non-empty output, and no file has got anything otherwise.
C17_LogAppendOnly ==
    hist.ret.job # "none" =>
        /\ \A f \in FileNames : IsPrefix(hist.ret.log0[f], output_log[f])
        /\ hist.ret.outcome = "output" =>
              \E f \in FileNames :
                  /\ BlocksIn(Appended(f)) = 1
                  /\ \A g \in FileNames \ {f} : Appended(g) = <<>>
        /\ hist.ret.outcome # "output" =>
              \A f \in FileNames : Appended(f) = <<>>

\* C17 witness: a handler returned with output, and its block stands after
\* what the file already held.
C17_Witness ==
    /\ hist.ret.job # "none"
    /\ hist.ret.outcome = "output"
    /\ \E f \in FileNames :
          /\ hist.ret.log0[f] # <<>>
          /\ BlocksIn(Appended(f)) = 1
          /\ output_log[f] = hist.ret.log0[f] \o Appended(f)
----------------------------------------------------------------------------
\* No handler is running.
BetweenRuns == hb.pc = "idle" /\ lb.pc = "idle"

SessionStateWhole == (session_id = None) <=> (tonight_date = None)

\* A step that changes session_id is the minting of a heartbeat classified
\* first or of a last breath that found no session.
SessionChangesOnlyByMinting ==
    session_id' # session_id =>
        \/ hb.pc = "mint_id" /\ hb.is_first /\ hb'.minted = session_id'
        \/ lb.pc = "mint_id" /\ lb'.minted = session_id'

\* C18: between handler runs session_id and tonight_date are both absent
\* or both present; a session that exists is never absent again; and
\* session_id changes only in a heartbeat classified first or in a last
\* breath that found no session.
C18_SessionStateLifecycle ==
    /\ [](BetweenRuns => SessionStateWhole)
    /\ [][/\ session_id # None => session_id' # None
          /\ SessionChangesOnlyByMinting]_vars

\* C18 witness: between two runs the object holds its second session,
\* with its night date.
C18_Witness ==
    /\ BetweenRuns
    /\ uuid_count = 2
    /\ session_id = 2
    /\ tonight_date # None
----------------------------------------------------------------------------
\* The blocks of one session stand in one file.
OneFilePerSession ==
    \A f, g \in FileNames :
        \A i \in 1..Len(output_log[f]), j \in 1..Len(output_log[g]) :
            (/\ output_log[f][i].kind = "block"
             /\ output_log[g][j].kind = "block"
             /\ output_log[f][i].sid = output_log[g][j].sid) => f = g

\* C19: a block goes into the file named after the night date stored with
\* the session the agent was invoked with; the blocks of one session stand
\* in one file; and the block of a last breath goes into the file of the
\* night it closes, the night before its clock-derived night date.
C19_BlockInSessionFile ==
    NormalConfig =>
        /\ hist.ret.outcome = "output" =>
              Appended(hist.ret.date0) # <<>>
        /\ OneFilePerSession
        /\ (hist.ret.job = "last_breath" /\ hist.ret.outcome = "output") =>
              Appended(ClosedNight(hist.ret.fire_date)) # <<>>
----------------------------------------------------------------------------
HeadersIn(s) == Cardinality({i \in 1..Len(s) : s[i].kind = "header"})

\* The blocks after a header are of the session the header names.
HeaderNamesLaterBlocks(s) ==
    \A i, j \in 1..Len(s) :
        (i < j /\ s[i].kind = "header" /\ s[j].kind = "block") =>
            s[j].sid = s[i].sid

\* C20: with serialized fires, a file of one night gets the night header
\* at most once, and the session the header names is the session of every
\* block written into the file after it.
C20_OneHeaderPerFile ==
    \A f \in FileNames :
        /\ HeadersIn(output_log[f]) <= 1
        /\ HeaderNamesLaterBlocks(output_log[f])

\* C20 witness: a file holds the header of a session and two blocks of
\* that session after it.
C20_Witness ==
    \E f \in Dates :
        /\ Len(output_log[f]) = 3
        /\ output_log[f][1].kind = "header"
        /\ output_log[f][1].date = f
        /\ output_log[f][2] = Block(output_log[f][1].sid)
        /\ output_log[f][3] = Block(output_log[f][1].sid)
====
